---- MODULE Spec2Model ----
(***************************************************************************)
(* USCIS case tracker userscript (uscis-tracker.user.js, version 0.5):     *)
(* the localStorage history store, the change detection and the page-load  *)
(* run that ties them together.                                            *)
(*                                                                         *)
(* JavaScript values are modelled as follows.                              *)
(*   - a primitive is a record [t |-> type, v |-> text];                   *)
(*   - an object is a function from its own property names to values; a    *)
(*     property that is absent is not in the DOMAIN, a property that holds *)
(*     undefined is in the DOMAIN with value Undefined;                    *)
(*   - an array is a sequence;                                             *)
(*   - a localStorage item is NoItem (getItem returns null) or a string,   *)
(*     which is either the text of a JSON value, the empty string or text  *)
(*     that is not JSON.                                                   *)
(***************************************************************************)
EXTENDS Integers, Sequences, FiniteSets, TLC

VARIABLES
    storage,          \* localStorage: key -> item
    now,              \* the wall clock read by new Date()
    pc,               \* position of the page's script
    attempt,          \* loop counter i of waitForCaseCardsComponent
    caseNumbers,      \* case numbers of trackCases still to be fetched
    lastSavedCases,   \* trackCases' local lastSavedCases (a call result)
    newData,          \* trackCases' local newData / saveToHistory's argument
    fieldHighlights,  \* global fieldHighlights
    currentCaseData,  \* global currentCaseData
    caseIdsHidden,    \* global caseIdsHidden
    paneShown,        \* whether renderPane has built the pane (and its buttons)
    appends,          \* completed saveToHistory calls since the store was last empty
    fetched           \* the fetches of this run that have settled, and to what

vars == <<storage, now, pc, attempt, caseNumbers, lastSavedCases, newData,
          fieldHighlights, currentCaseData, caseIdsHidden, paneShown, appends,
          fetched>>

----------------------------------------------------------------------------
(* Bounds of the model *)

MaxTime == 1          \* the clock runs from 0 to MaxTime
MaxHistory == 2       \* appends made one after another on a store
MaxEvents == 2        \* events of a case compared by detectFieldHighlights
MaxFetchEvents == 3   \* events of a payload given to fetchCaseData

(* Program constants *)

STORAGE_KEY == "uscis_cases_data"
HISTORY_KEY == "uscis_cases_history"
maxAttempts == 30

----------------------------------------------------------------------------
(* JavaScript primitives *)

Undefined == [t |-> "undefined", v |-> ""]
Null == [t |-> "null", v |-> ""]
Str(s) == [t |-> "string", v |-> s]
Num(s) == [t |-> "number", v |-> s]
Bool(s) == [t |-> "boolean", v |-> s]

\* o[k] for an object o: undefined when o has no such property
Get(o, k) == IF k \in DOMAIN o THEN o[k] ELSE Undefined

\* (o.events || []): the events array of a parsed or built record
EventsOf(o) == IF "events" \in DOMAIN o THEN o["events"] ELSE << >>

\* String(x), as a template literal `${x}` converts x
ToStringJS(x) == IF x.t \in {"string", "number", "boolean"} THEN x.v ELSE x.t

\* Date.prototype.toISOString of clock value t
ToISOString(t) == Str("2026-01-0" \o ToString(t + 1) \o "T00:00:00.000Z")

\* a call's outcome: a returned value or a thrown exception
Return(v) == [ok |-> TRUE, val |-> v]
Throw(e) == [ok |-> FALSE, val |-> e]

----------------------------------------------------------------------------
(* JSON.stringify / JSON.parse and localStorage items *)

NoItem == [kind |-> "null", val |-> << >>]
EmptyString == [kind |-> "empty", val |-> << >>]
Garbage == [kind |-> "garbage", val |-> << >>]
JsonText(v) == [kind |-> "json", val |-> v]

\* JSON.stringify of an object of primitives: a property holding undefined is omitted
StringifyObject(o) ==
    [k \in {f \in DOMAIN o : o[f] # Undefined} |-> o[k]]

\* JSON.stringify of a case record: as an object, with its events array
\* serialized element by element
StringifyCase(c) ==
    [k \in {f \in DOMAIN c : f = "events" \/ c[f] # Undefined} |->
        IF k = "events"
        THEN [i \in 1..Len(c[k]) |-> StringifyObject(c[k][i])]
        ELSE c[k]]

StringifyCases(cases) == [id \in DOMAIN cases |-> StringifyCase(cases[id])]

StringifyEntry(e) ==
    [k \in DOMAIN e |-> IF k = "cases" THEN StringifyCases(e[k]) ELSE e[k]]

\* JSON.stringify(history)
StringifyHistory(h) == JsonText([i \in 1..Len(h) |-> StringifyEntry(h[i])])

\* JSON.stringify({cases, lastFetch})
StringifySnapshot(s) == JsonText(StringifyEntry(s))

\* JSON.parse(text): SyntaxError on text that is not JSON
JSONparse(item) ==
    IF item.kind = "json" THEN Return(item.val) ELSE Throw("SyntaxError")

\* a string is truthy unless it is empty; null is falsy
Truthy(item) == item.kind \in {"json", "garbage"}

EmptyCases == << >>

----------------------------------------------------------------------------
(* History management.  A function that touches localStorage yields its    *)
(* outcome (returned value or exception) together with the storage it      *)
(* leaves.                                                                 *)

Outcome(r, st) == [ok |-> r.ok, val |-> r.val, st |-> st]

\* getHistory(): JSON.parse(localStorage.getItem(HISTORY_KEY) || '[]')
getHistory(st) ==
    Outcome(IF Truthy(st[HISTORY_KEY]) THEN JSONparse(st[HISTORY_KEY])
            ELSE Return(<< >>), st)

\* getLastSavedCases reading the first history entry instead of the last
getLastSavedCasesFirst(st) ==
    LET history == getHistory(st) IN
    IF ~history.ok THEN history
    ELSE IF Len(history.val) > 0
    THEN Outcome(Return(history.val[1]["cases"]), history.st)
    ELSE LET legacy == history.st[STORAGE_KEY] IN
         IF Truthy(legacy)
         THEN LET parsed == JSONparse(legacy) IN
              IF ~parsed.ok THEN Outcome(parsed, history.st)
              ELSE Outcome(Return(IF "cases" \in DOMAIN parsed.val
                                  THEN parsed.val["cases"] ELSE EmptyCases),
                           history.st)
         ELSE Outcome(Return(EmptyCases), history.st)

\* getLastSavedCases writing the legacy snapshot back as a first history entry
getLastSavedCasesMigrating(st) ==
    LET history == getHistory(st) IN
    IF ~history.ok THEN history
    ELSE IF Len(history.val) > 0
    THEN Outcome(Return(history.val[Len(history.val)]["cases"]), history.st)
    ELSE LET legacy == history.st[STORAGE_KEY] IN
         IF Truthy(legacy)
         THEN LET parsed == JSONparse(legacy) IN
              IF ~parsed.ok THEN Outcome(parsed, history.st)
              ELSE IF "cases" \in DOMAIN parsed.val
              THEN Outcome(Return(parsed.val["cases"]),
                     [history.st EXCEPT ![HISTORY_KEY] =
                        StringifyHistory(<<[cases |-> parsed.val["cases"],
                                            savedAt |-> parsed.val["lastFetch"]]>>)])
              ELSE Outcome(Return(EmptyCases), history.st)
         ELSE Outcome(Return(EmptyCases), history.st)

\* getLastSavedCases looking through the whole history: each case as the
\* latest entry that holds it has it
getLastSavedCasesAnyEntry(st) ==
    LET history == getHistory(st) IN
    IF ~history.ok THEN history
    ELSE IF Len(history.val) > 0
    THEN LET h == history.val
             ids == UNION {DOMAIN h[i]["cases"] : i \in 1..Len(h)}
             latest(id) == CHOOSE i \in 1..Len(h) :
                              /\ id \in DOMAIN h[i]["cases"]
                              /\ \A j \in (i + 1)..Len(h) : id \notin DOMAIN h[j]["cases"]
         IN Outcome(Return([id \in ids |-> h[latest(id)]["cases"][id]]), history.st)
    ELSE LET legacy == history.st[STORAGE_KEY] IN
         IF Truthy(legacy)
         THEN LET parsed == JSONparse(legacy) IN
              IF ~parsed.ok THEN Outcome(parsed, history.st)
              ELSE Outcome(Return(IF "cases" \in DOMAIN parsed.val
                                  THEN parsed.val["cases"] ELSE EmptyCases),
                           history.st)
         ELSE Outcome(Return(EmptyCases), history.st)

\* getLastSavedCases(): the cases of the last history entry, else the cases
\* of the single-snapshot entry, else {}
getLastSavedCases(st) ==
    LET history == getHistory(st) IN
    IF ~history.ok THEN history
    ELSE IF Len(history.val) > 0
    THEN Outcome(Return(history.val[Len(history.val)]["cases"]), history.st)
    ELSE LET legacy == history.st[STORAGE_KEY] IN
         IF Truthy(legacy)
         THEN LET parsed == JSONparse(legacy) IN
              IF ~parsed.ok THEN Outcome(parsed, history.st)
              ELSE Outcome(Return(IF "cases" \in DOMAIN parsed.val
                                  THEN parsed.val["cases"] ELSE EmptyCases),
                           history.st)
         ELSE Outcome(Return(EmptyCases), history.st)

\* saveToHistory inserting the legacy snapshot ahead of the first append
saveToHistoryMigrating(st, casesData, t1, t2) ==
    LET history == getHistory(st) IN
    IF ~history.ok THEN history
    ELSE LET legacy == history.st[STORAGE_KEY]
             base == IF Len(history.val) = 0 /\ legacy.kind = "json"
                        /\ "cases" \in DOMAIN legacy.val
                     THEN <<[cases |-> legacy.val["cases"],
                             savedAt |-> legacy.val["lastFetch"]]>>
                     ELSE history.val
             pushed == Append(base,
                              [cases |-> casesData, savedAt |-> ToISOString(t1)])
         IN Outcome(Return(Undefined),
                [history.st EXCEPT
                    ![HISTORY_KEY] = StringifyHistory(pushed),
                    ![STORAGE_KEY] = StringifySnapshot(
                        [cases |-> casesData, lastFetch |-> ToISOString(t2)])])

\* saveToHistory without its second setItem
saveToHistoryHistoryOnly(st, casesData, t1, t2) ==
    LET history == getHistory(st) IN
    IF ~history.ok THEN history
    ELSE LET pushed == Append(history.val,
                              [cases |-> casesData, savedAt |-> ToISOString(t1)])
         IN Outcome(Return(Undefined),
                [history.st EXCEPT ![HISTORY_KEY] = StringifyHistory(pushed)])

\* saveToHistory(casesData), its two new Date() calls reading t1 then t2
saveToHistory(st, casesData, t1, t2) ==
    LET history == getHistory(st) IN
    IF ~history.ok THEN history
    ELSE LET pushed == Append(history.val,
                              [cases |-> casesData, savedAt |-> ToISOString(t1)])
         IN Outcome(Return(Undefined),
                [history.st EXCEPT
                    ![HISTORY_KEY] = StringifyHistory(pushed),
                    ![STORAGE_KEY] = StringifySnapshot(
                        [cases |-> casesData, lastFetch |-> ToISOString(t2)])])

\* clearAllHistory removing the history entry only
clearAllHistoryOnlyHistory(st) ==
    Outcome(Return(Undefined), [st EXCEPT ![HISTORY_KEY] = NoItem])

\* clearAllHistory(): removeItem of both keys
clearAllHistory(st) ==
    Outcome(Return(Undefined),
            [st EXCEPT ![HISTORY_KEY] = NoItem, ![STORAGE_KEY] = NoItem])

----------------------------------------------------------------------------
(* Change detection *)

\* lines 452, 455: the key `${e.eventCode}_${e.updatedAtTimestamp}`
EventKey(e) ==
    ToStringJS(Get(e, "eventCode")) \o "_" \o ToStringJS(Get(e, "updatedAtTimestamp"))

\* the new-case branch leaving updatedAtChanged unset
NewCaseHighlightUnchanged(newCase) ==
    [isNew |-> TRUE,
     updatedAtChanged |-> FALSE,
     newEventIndices |-> {i - 1 : i \in 1..Len(newCase["events"])}]

\* lines 440-445: the annotation of a case the prior snapshot does not hold;
\* event indices count from 0
NewCaseHighlight(newCase) ==
    [isNew |-> TRUE,
     updatedAtChanged |-> TRUE,
     newEventIndices |-> {i - 1 : i \in 1..Len(newCase["events"])}]

\* the comparison of version 0.4, which looked at updatedAtTimestamp only
UpdatedAtChangedTimestampOnly(oldCase, newCase) ==
    Get(oldCase, "updatedAtTimestamp") # Get(newCase, "updatedAtTimestamp")

\* lines 447-450: !== on either field
UpdatedAtChanged(oldCase, newCase) ==
    \/ Get(oldCase, "updatedAtTimestamp") # Get(newCase, "updatedAtTimestamp")
    \/ Get(oldCase, "updatedAt") # Get(newCase, "updatedAt")

\* lines 451-459: the indices of the new events whose key no old event has
NewEventIndices(oldCase, newCase) ==
    LET oldEventKeys == {EventKey(EventsOf(oldCase)[j]) :
                            j \in 1..Len(EventsOf(oldCase))}
    IN {i - 1 : i \in {k \in 1..Len(EventsOf(newCase)) :
                          EventKey(EventsOf(newCase)[k]) \notin oldEventKeys}}

\* lines 435-460: the annotation of one case number of newCases
Highlight(oldCases, newCases, caseNum) ==
    IF caseNum \notin DOMAIN oldCases
    THEN NewCaseHighlight(newCases[caseNum])
    ELSE [isNew |-> FALSE,
          updatedAtChanged |-> UpdatedAtChanged(oldCases[caseNum], newCases[caseNum]),
          newEventIndices |-> NewEventIndices(oldCases[caseNum], newCases[caseNum])]

\* detectFieldHighlights annotating the cases of both snapshots
detectFieldHighlightsAllIds(oldCases, newCases) ==
    [caseNum \in DOMAIN newCases \cup DOMAIN oldCases |->
        IF caseNum \in DOMAIN newCases
        THEN Highlight(oldCases, newCases, caseNum)
        ELSE [isNew |-> FALSE, updatedAtChanged |-> FALSE, newEventIndices |-> {}]]

\* detectFieldHighlights(oldCases, newCases)
detectFieldHighlights(oldCases, newCases) ==
    [caseNum \in DOMAIN newCases |-> Highlight(oldCases, newCases, caseNum)]

----------------------------------------------------------------------------
(* Case records: fetchCaseData's normalisation of a fetched payload *)

EVENT_CODES ==
    [c \in {"IAF", "FTA0", "SA", "LDA", "H008", "H016", "IKA"} |->
        CASE c = "IAF" -> "Receipt letter emailed"
          [] c = "FTA0" -> "Biometrics / database checks received"
          [] c = "SA" -> "Status Adjusted"
          [] c = "LDA" -> "Card Produced"
          [] c = "H008" -> "Case Approved"
          [] c = "H016" -> "Case Denied"
          [] c = "IKA" -> "RFE issued"]

\* String.prototype.toUpperCase on the event codes of the model
ToUpperCase(s) ==
    CASE s = "iaf" -> "IAF"
      [] s = "h008" -> "H008"
      [] OTHER -> s

\* getEventCodeDescription(key); key.toUpperCase() is a TypeError unless key
\* is a string
getEventCodeDescription(key) ==
    IF key.t # "string" THEN Throw("TypeError")
    ELSE LET normalizedKey == ToUpperCase(key.v) IN
         Return(IF normalizedKey \in DOMAIN EVENT_CODES
                THEN Str(EVENT_CODES[normalizedKey]) ELSE Str("Unknown"))

\* new Date(x) for the timestamps of the model: the time value in days
\* since the epoch, or an invalid date (getTime() is NaN), as for undefined
\* and for a string that is no date
DateValue(x) ==
    CASE x = Str("2024-01-05") -> [valid |-> TRUE, time |-> 19727]
      [] x = Str("2024-02-10") -> [valid |-> TRUE, time |-> 19763]
      [] x = Str("2024-03-15") -> [valid |-> TRUE, time |-> 19797]
      [] x = Num("1704412800000") -> [valid |-> TRUE, time |-> 19727]
      [] x = Null -> [valid |-> TRUE, time |-> 0]
      [] OTHER -> [valid |-> FALSE, time |-> 0]

\* the comparator of line 371: new Date(b.ts) - new Date(a.ts); a NaN result
\* counts as +0
Compare(a, b) ==
    LET da == DateValue(Get(a, "updatedAtTimestamp"))
        db == DateValue(Get(b, "updatedAtTimestamp"))
    IN IF da.valid /\ db.valid THEN db.time - da.time ELSE 0

\* insertion of e into a sorted sequence, after every element it does not
\* strictly precede (a stable sort)
RECURSIVE InsertSorted(_, _)
InsertSorted(e, s) ==
    IF s = << >> THEN <<e>>
    ELSE IF Compare(Head(s), e) > 0
    THEN <<e>> \o s
    ELSE <<Head(s)>> \o InsertSorted(e, Tail(s))

RECURSIVE StableSort(_)
StableSort(s) ==
    IF s = << >> THEN << >>
    ELSE InsertSorted(s[Len(s)], StableSort(SubSeq(s, 1, Len(s) - 1)))

Orderings(s) ==
    {[i \in 1..Len(s) |-> s[p[i]]] :
        p \in {q \in [1..Len(s) -> 1..Len(s)] :
                  \A i, j \in 1..Len(s) : i # j => q[i] # q[j]}}

\* the comparator is a consistent comparison function unless an invalid date
\* (equal to everything) sits beside two dates that differ
ConsistentComparator(s) ==
    LET dates == {DateValue(Get(s[i], "updatedAtTimestamp")) : i \in 1..Len(s)} IN
    (\A d \in dates : d.valid) \/ Cardinality({d \in dates : d.valid}) <= 1

\* Array.prototype.sort: stable; with an inconsistent comparator the order
\* is implementation-defined
SortResults(s) ==
    IF ConsistentComparator(s) THEN {StableSort(s)} ELSE Orderings(s)

\* lines 365-370: the events of the payload mapped to event records, or the
\* TypeError of getEventCodeDescription
MapEvents(raw) ==
    IF \E i \in 1..Len(raw) : ~getEventCodeDescription(Get(raw[i], "eventCode")).ok
    THEN Throw("TypeError")
    ELSE Return([i \in 1..Len(raw) |->
            [eventCode |-> Get(raw[i], "eventCode"),
             eventDesc |-> getEventCodeDescription(Get(raw[i], "eventCode")).val,
             updatedAtTimestamp |-> Get(raw[i], "updatedAtTimestamp")]])

\* lines 373-385: the record fetchCaseData returns
CaseRecord(caseNumber, caseInfo, documentsData, sortedEvents, t) ==
    [caseNumber |-> Str(caseNumber),
     formType |-> Get(caseInfo, "formType"),
     formName |-> Get(caseInfo, "formName"),
     closed |-> Get(caseInfo, "closed"),
     updatedAt |-> Get(caseInfo, "updatedAt"),
     updatedAtTimestamp |-> Get(caseInfo, "updatedAtTimestamp"),
     currentActionCode |->
        IF Len(sortedEvents) > 0 THEN sortedEvents[1]["eventCode"] ELSE Undefined,
     currentActionDesc |->
        IF Len(sortedEvents) > 0 THEN sortedEvents[1]["eventDesc"] ELSE Undefined,
     events |-> sortedEvents,
     documents |-> documentsData,
     lastFetched |-> ToISOString(t)]

\* fetchCaseData as version 0.4 had it in this respect: a case without
\* events ends in the catch
fetchCaseDataNoEventsFails(caseNumber, response, t) ==
    IF ~response.ok THEN {Null}
    ELSE LET caseInfo == response.data
             mapped == MapEvents(EventsOf(caseInfo))
         IN IF ~mapped.ok \/ Len(mapped.val) = 0 THEN {Null}
            ELSE {CaseRecord(caseNumber, caseInfo, response.documents, sorted, t) :
                    sorted \in SortResults(mapped.val)}

\* fetchCaseData(caseNumber) on a response: the records it can return at
\* clock t; Null stands for its return of null. A response is a failure
\* (fetch rejected, body not JSON) or carries statusData.data and the documents
fetchCaseData(caseNumber, response, t) ==
    IF ~response.ok THEN {Null}
    ELSE LET caseInfo == response.data
             mapped == MapEvents(EventsOf(caseInfo))
         IN IF ~mapped.ok THEN {Null}
            ELSE {CaseRecord(caseNumber, caseInfo, response.documents, sorted, t) :
                    sorted \in SortResults(mapped.val)}

\* version 0.4 (lines 78-104): the record its fetchCaseData returned, which
\* read sortedEvents[0].eventCode and so failed on a case with no events
LegacyCaseRecord(caseNumber, caseInfo, documentsData, sortedEvents, t) ==
    [caseNumber |-> Str(caseNumber),
     formType |-> Get(caseInfo, "formType"),
     formName |-> Get(caseInfo, "formName"),
     updatedAtTimestamp |-> Get(caseInfo, "updatedAtTimestamp"),
     currentActionCode |-> sortedEvents[1]["eventCode"],
     currentActionDesc |-> sortedEvents[1]["eventDesc"],
     events |-> sortedEvents,
     documents |-> documentsData,
     lastFetched |-> ToISOString(t)]

LegacyFetchCaseData(caseNumber, response, t) ==
    IF ~response.ok THEN {Null}
    ELSE LET caseInfo == response.data
             mapped == MapEvents(EventsOf(caseInfo))
         IN IF ~mapped.ok \/ Len(mapped.val) = 0 THEN {Null}
            ELSE {LegacyCaseRecord(caseNumber, caseInfo, response.documents, sorted, t) :
                    sorted \in SortResults(mapped.val)}

----------------------------------------------------------------------------
(* The page and the server: what the script can be given *)

\* case numbers extractCaseNumbersFromDOM can find on the page
CaseIds == {"IOE1", "IOE2"}

RawEvent(code, ts) == [eventCode |-> code, updatedAtTimestamp |-> ts]

\* responses of the case service to the two fetches of one case number
FailedResponse == [ok |-> FALSE, data |-> << >>, documents |-> Null]
Responses ==
    { FailedResponse,
      \* no data property: caseInfo = {}
      [ok |-> TRUE, data |-> << >>, documents |-> Null],
      \* events oldest first, a code the table does not know, a lower-case code
      [ok |-> TRUE, documents |-> Str("[]"),
       data |-> [formType |-> Str("I-485"), closed |-> Bool("false"),
                 updatedAt |-> Str("2024-02-10"),
                 updatedAtTimestamp |-> Str("2024-02-10"),
                 events |-> <<RawEvent(Str("XYZ"), Str("2024-01-05")),
                              RawEvent(Str("h008"), Str("2024-02-10"))>>]],
      \* an event without eventCode
      [ok |-> TRUE, documents |-> Str("[]"),
       data |-> [events |-> <<[updatedAtTimestamp |-> Str("2024-01-05")]>>]] }

\* the snapshots (newData) a run of trackCases can build at clock t
CaseRecordsAt(id, t) ==
    UNION {fetchCaseData(id, r, t) : r \in Responses} \ {Null}

SnapshotsAt(t) ==
    UNION {{f \in [ids -> UNION {CaseRecordsAt(id, t) : id \in ids}] :
               \A id \in ids : f[id] \in CaseRecordsAt(id, t)} :
           ids \in SUBSET CaseIds}

\* the snapshots version 0.4 stored under STORAGE_KEY (lines 267-290)
LegacyCaseRecords(id) ==
    UNION {LegacyFetchCaseData(id, r, 0) : r \in Responses} \ {Null}

LegacySnapshots ==
    UNION {{f \in [ids -> UNION {LegacyCaseRecords(id) : id \in ids}] :
               \A id \in ids : f[id] \in LegacyCaseRecords(id)} :
           ids \in SUBSET CaseIds}

\* localStorage when version 0.5 first runs: nothing stored, or the single
\* snapshot version 0.4 left
EmptyStorage == [k \in {HISTORY_KEY, STORAGE_KEY} |-> NoItem]

InitialStorages ==
    {EmptyStorage} \cup
    {[EmptyStorage EXCEPT ![STORAGE_KEY] =
          StringifySnapshot([cases |-> s, lastFetch |-> ToISOString(0)])] :
       s \in LegacySnapshots}

\* storage as something other than the script left it: an entry that is
\* not JSON, or the empty string
CorruptStorages ==
    {[st EXCEPT ![k] = bad] :
        st \in InitialStorages, k \in {HISTORY_KEY, STORAGE_KEY},
        bad \in {Garbage, EmptyString}}

----------------------------------------------------------------------------
(* The script on a page: one run of trackCases per page load, the pane's   *)
(* buttons once the pane is rendered                                       *)

\* no call of getLastSavedCases since the store was last written
NoResult == [ok |-> FALSE, val |-> "not called"]

InitScript ==
    /\ now = 0
    /\ attempt = 0
    /\ caseNumbers = << >>
    /\ lastSavedCases = NoResult
    /\ newData = EmptyCases
    /\ fieldHighlights = << >>
    /\ currentCaseData = EmptyCases
    /\ caseIdsHidden = TRUE
    /\ paneShown = FALSE
    /\ appends = 0
    /\ fetched = << >>

\* the orders in which the distinct case numbers of a page can be found
CaseNumberLists ==
    UNION {{q \in [1..Cardinality(ids) -> ids] :
               \A i, j \in 1..Cardinality(ids) : i # j => q[i] # q[j]} :
           ids \in SUBSET CaseIds}

\* lines 737-749 as they would run with an await after renderPane: the run
\* suspends with the pane built and the snapshot not yet appended
FinishRunAtSuspending(t0, oldCases, casesData) ==
    /\ fieldHighlights' = detectFieldHighlights(oldCases, casesData)
    /\ currentCaseData' = casesData
    /\ paneShown' = TRUE
    /\ pc' = "appending"
    /\ now' = t0
    /\ UNCHANGED <<storage, appends>>

\* lines 737-749 of trackCases, which run without suspending: the diff
\* against oldCases, the render, the append
FinishRunAt(t0, oldCases, casesData) ==
    \E t1 \in t0..MaxTime : \E t2 \in t1..MaxTime :
        LET saved == saveToHistory(storage, casesData, t1, t2) IN
        /\ fieldHighlights' = detectFieldHighlights(oldCases, casesData)
        /\ currentCaseData' = casesData
        /\ paneShown' = TRUE
        /\ storage' = saved.st
        /\ IF saved.ok
           THEN /\ pc' = "done"
                /\ now' = t2
                /\ appends' = appends + 1
           ELSE /\ pc' = "failed"
                /\ UNCHANGED <<now, appends>>

\* lines 728-733 of trackCases, entered when waitForCaseCardsComponent has
\* returned: the case numbers, the prior state, and the first fetch (or,
\* with no case number on the page, the rest of the run)
BeginRun ==
    \E numbers \in CaseNumberLists :
        LET read == getLastSavedCases(storage) IN
        /\ lastSavedCases' = [ok |-> read.ok, val |-> read.val]
        /\ newData' = EmptyCases
        /\ fetched' = << >>
        /\ IF ~read.ok
           THEN /\ pc' = "failed"
                /\ storage' = read.st
                /\ caseNumbers' = << >>
                /\ UNCHANGED <<now, fieldHighlights, currentCaseData,
                               paneShown, appends>>
           ELSE IF numbers = << >>
           THEN /\ caseNumbers' = << >>
                /\ FinishRunAt(now, read.val, EmptyCases)
           ELSE /\ pc' = "fetching"
                /\ storage' = read.st
                /\ caseNumbers' = numbers
                /\ UNCHANGED <<now, fieldHighlights, currentCaseData,
                               paneShown, appends>>

\* lines 752-756 and 722-723, 705-706: the page loads, trackCases starts and
\* suspends in the first sleep of waitForCaseCardsComponent
StartTrackCases ==
    /\ pc = "start"
    /\ pc' = "polling"
    /\ attempt' = 0
    /\ UNCHANGED <<storage, now, caseNumbers, lastSavedCases, newData,
                   fieldHighlights, currentCaseData, caseIdsHidden, paneShown,
                   appends, fetched>>

\* lines 707-714: the component is not on the page yet; sleep again
PollNotFound ==
    /\ pc = "polling"
    /\ attempt < maxAttempts
    /\ attempt' = attempt + 1
    /\ UNCHANGED <<storage, now, pc, caseNumbers, lastSavedCases, newData,
                   fieldHighlights, currentCaseData, caseIdsHidden, paneShown,
                   appends, fetched>>

\* lines 707-711: the component is on the page; the loop and its counter
\* are left
PollFound ==
    /\ pc = "polling"
    /\ attempt < maxAttempts
    /\ BeginRun
    /\ attempt' = 0
    /\ UNCHANGED caseIdsHidden

\* trackCases returning when waitForCaseCardsComponent has returned null
PollGiveUpReturns ==
    /\ pc = "polling"
    /\ attempt = maxAttempts
    /\ pc' = "done"
    /\ attempt' = 0
    /\ UNCHANGED <<storage, now, caseNumbers, lastSavedCases, newData,
                   fieldHighlights, currentCaseData, caseIdsHidden, paneShown,
                   appends, fetched>>

\* lines 716-717, 724-726: the loop ran out; trackCases goes on without
\* the component
PollGiveUp ==
    /\ pc = "polling"
    /\ attempt = maxAttempts
    /\ BeginRun
    /\ attempt' = 0
    /\ UNCHANGED caseIdsHidden

\* lines 732-735: the fetch of the next case number settles; after the last
\* one the run finishes in the same step
FetchSettles ==
    /\ pc = "fetching"
    /\ \E response \in Responses, t \in now..MaxTime :
       \E caseData \in fetchCaseData(Head(caseNumbers), response, t) :
          LET data == IF caseData # Null
                      THEN [id \in DOMAIN newData \cup {Head(caseNumbers)} |->
                               IF id = Head(caseNumbers) THEN caseData
                               ELSE newData[id]]
                      ELSE newData
          IN /\ newData' = data
             /\ caseNumbers' = Tail(caseNumbers)
             /\ fetched' = Append(fetched, [caseNum |-> Head(caseNumbers),
                                            response |-> response])
             /\ IF Tail(caseNumbers) = << >>
                THEN FinishRunAt(t, lastSavedCases.val, data)
                ELSE /\ now' = t
                     /\ UNCHANGED <<storage, pc, fieldHighlights,
                                    currentCaseData, paneShown, appends>>
    /\ UNCHANGED <<attempt, lastSavedCases, caseIdsHidden>>

\* lines 677-681: Clear History clicked and confirmed
ClickClearHistory ==
    /\ paneShown
    /\ storage' = clearAllHistory(storage).st
    /\ appends' = 0
    /\ UNCHANGED <<now, pc, attempt, caseNumbers, lastSavedCases, newData,
                   fieldHighlights, currentCaseData, caseIdsHidden, paneShown,
                   fetched>>

\* lines 668-671: Show/Hide Case IDs clicked
ClickToggleCaseIds ==
    /\ paneShown
    /\ caseIdsHidden' = ~caseIdsHidden
    /\ UNCHANGED <<storage, now, pc, attempt, caseNumbers, lastSavedCases,
                   newData, fieldHighlights, currentCaseData, paneShown, appends,
                   fetched>>

\* the page is loaded again after a run has ended: the script starts afresh
\* (lines 329-331), localStorage and the clock persist
ReloadPage ==
    /\ pc \in {"done", "failed"}
    /\ appends < MaxHistory
    /\ pc' = "start"
    /\ attempt' = 0
    /\ caseNumbers' = << >>
    /\ lastSavedCases' = NoResult
    /\ newData' = EmptyCases
    /\ fieldHighlights' = << >>
    /\ currentCaseData' = EmptyCases
    /\ caseIdsHidden' = TRUE
    /\ paneShown' = FALSE
    /\ fetched' = << >>
    /\ UNCHANGED <<storage, now, appends>>

Init ==
    /\ storage \in InitialStorages
    /\ pc = "start"
    /\ InitScript

Next ==
    \/ StartTrackCases
    \/ PollNotFound
    \/ PollFound
    \/ PollGiveUp
    \/ FetchSettles
    \/ ClickClearHistory
    \/ ClickToggleCaseIds
    \/ ReloadPage

Spec == Init /\ [][Next]_vars

\* the event loop runs what is due: trackCases at page load, the timer of
\* each sleep(200), and the continuation of each fetch, which settles
PollStep == PollNotFound \/ PollFound \/ PollGiveUp

FairSpec ==
    /\ Spec
    /\ WF_vars(StartTrackCases)
    /\ WF_vars(PollStep)
    /\ WF_vars(FetchSettles)

----------------------------------------------------------------------------
(* A later page load: one run of trackCases on the storage two earlier     *)
(* runs have left                                                          *)

\* storage after two runs that ended at clock 0: saveToHistory (line 749)
\* of the first run's snapshot, then of the second's, on an empty store
StoragesAfterTwoRuns ==
    {saveToHistory(saveToHistory(EmptyStorage, first, 0, 0).st, second, 0, 0).st :
        first \in SnapshotsAt(0), second \in SnapshotsAt(0)}

InitLaterRun ==
    /\ storage \in StoragesAfterTwoRuns
    /\ pc = "start"
    /\ now = 0
    /\ attempt = 0
    /\ caseNumbers = << >>
    /\ lastSavedCases = NoResult
    /\ newData = EmptyCases
    /\ fieldHighlights = << >>
    /\ currentCaseData = EmptyCases
    /\ caseIdsHidden = TRUE
    /\ paneShown = FALSE
    /\ appends = Len(getHistory(storage).val)
    /\ fetched = << >>

NextLaterRun ==
    \/ StartTrackCases
    \/ PollNotFound
    \/ PollFound
    \/ PollGiveUp
    \/ FetchSettles

SpecLaterRun == InitLaterRun /\ [][NextLaterRun]_vars

FairLaterRun ==
    /\ SpecLaterRun
    /\ WF_vars(StartTrackCases)
    /\ WF_vars(PollStep)
    /\ WF_vars(FetchSettles)

----------------------------------------------------------------------------
(* The history store called operation by operation *)

InitStore ==
    /\ storage \in InitialStorages
    /\ pc = "store"
    /\ InitScript

StorePcs == {"store", "saved", "cleared", "threw"}

\* saveToHistory(casesData) with a snapshot built at the current clock
CallSaveToHistory ==
    /\ pc \in StorePcs
    /\ appends < MaxHistory
    /\ \E casesData \in SnapshotsAt(now), t1 \in now..MaxTime :
       \E t2 \in t1..MaxTime :
          LET saved == saveToHistory(storage, casesData, t1, t2) IN
          /\ newData' = casesData
          /\ storage' = saved.st
          /\ IF saved.ok
             THEN /\ now' = t2
                  /\ pc' = "saved"
                  /\ appends' = appends + 1
             ELSE /\ pc' = "threw"
                  /\ UNCHANGED <<now, appends>>
    /\ lastSavedCases' = NoResult
    /\ UNCHANGED <<attempt, caseNumbers, fieldHighlights, currentCaseData,
                   caseIdsHidden, paneShown, fetched>>

CallClearAllHistory ==
    /\ pc \in StorePcs
    /\ storage' = clearAllHistory(storage).st
    /\ pc' = "cleared"
    /\ appends' = 0
    /\ lastSavedCases' = NoResult
    /\ UNCHANGED <<now, attempt, caseNumbers, newData, fieldHighlights,
                   currentCaseData, caseIdsHidden, paneShown, fetched>>

CallGetLastSavedCases ==
    /\ pc \in StorePcs
    /\ LET read == getLastSavedCases(storage) IN
       /\ lastSavedCases' = [ok |-> read.ok, val |-> read.val]
       /\ storage' = read.st
    /\ UNCHANGED <<now, pc, attempt, caseNumbers, newData, fieldHighlights,
                   currentCaseData, caseIdsHidden, paneShown, appends, fetched>>

NextStore ==
    \/ CallSaveToHistory
    \/ CallClearAllHistory
    \/ CallGetLastSavedCases

SpecStore == InitStore /\ [][NextStore]_vars

\* the same operations on storage that may hold a damaged entry
InitCorrupt ==
    /\ storage \in InitialStorages \cup CorruptStorages
    /\ pc = "store"
    /\ InitScript

SpecCorrupt == InitCorrupt /\ [][NextStore]_vars

----------------------------------------------------------------------------
(* detectFieldHighlights on a prior snapshot as read from storage and a    *)
(* new snapshot as fetched                                                 *)

DiffDates == {Str("2024-01-05"), Str("2024-02-10")}

\* event payloads: two dated events, and one event whose timestamp comes
\* as a number or as the string of the same digits
DiffRawEvents ==
    { RawEvent(Str("IAF"), Str("2024-01-05")),
      RawEvent(Str("H008"), Str("2024-02-10")),
      RawEvent(Str("IAF"), Num("1704412800000")),
      RawEvent(Str("IAF"), Str("1704412800000")) }

DiffRawEventSeqs ==
    UNION {[1..n -> DiffRawEvents] : n \in 0..MaxEvents}

DiffResponses ==
    {[ok |-> TRUE, documents |-> Null,
      data |-> [updatedAt |-> u, updatedAtTimestamp |-> t, events |-> ev]] :
        u \in DiffDates, t \in DiffDates, ev \in DiffRawEventSeqs}

\* records of the new snapshot
DiffNewRecords(id) == UNION {fetchCaseData(id, r, 0) : r \in DiffResponses}

\* records of the prior snapshot, as parsed from storage: saved by this
\* version or by version 0.4
DiffOldRecords(id) ==
    {StringifyCase(c) : c \in
        UNION {fetchCaseData(id, r, 0) \cup (LegacyFetchCaseData(id, r, 0) \ {Null}) :
               r \in {q \in DiffResponses : q.data["updatedAt"] = Str("2024-01-05")}}}

\* the second case number: in neither snapshot, in both, or in one of them
SecondCase == CaseRecord("IOE2", << >>, Null, << >>, 0)
SecondCasePairs ==
    {<<o, n>> : o \in {{}, {StringifyCase(SecondCase)}}, n \in {{}, {SecondCase}}}

\* the mapping holding the records chosen for IOE1 and IOE2 (a set of at
\* most one record each)
CasesOf(first, second) ==
    [id \in {i \in {"IOE1"} : first # {}} \cup {i \in {"IOE2"} : second # {}} |->
        IF id = "IOE1" THEN CHOOSE c \in first : TRUE
        ELSE CHOOSE c \in second : TRUE]

InitDiff ==
    /\ storage = EmptyStorage
    /\ pc = "diff"
    /\ \E o \in {{}} \cup {{c} : c \in DiffOldRecords("IOE1")},
          n \in {{}} \cup {{c} : c \in DiffNewRecords("IOE1")},
          second \in SecondCasePairs :
          /\ lastSavedCases = Return(CasesOf(o, second[1]))
          /\ newData = CasesOf(n, second[2])
    /\ now = 0
    /\ attempt = 0
    /\ caseNumbers = << >>
    /\ fieldHighlights = << >>
    /\ currentCaseData = EmptyCases
    /\ caseIdsHidden = TRUE
    /\ paneShown = FALSE
    /\ appends = 0
    /\ fetched = << >>

CallDetectFieldHighlights ==
    /\ pc = "diff"
    /\ fieldHighlights' = detectFieldHighlights(lastSavedCases.val, newData)
    /\ pc' = "diffed"
    /\ UNCHANGED <<storage, now, attempt, caseNumbers, lastSavedCases, newData,
                   currentCaseData, caseIdsHidden, paneShown, appends, fetched>>

NextDiff == CallDetectFieldHighlights

SpecDiff == InitDiff /\ [][NextDiff]_vars

----------------------------------------------------------------------------
(* fetchCaseData on one fetched payload *)

\* event payloads of the case service: dated events (two of them on the
\* same day), a lower-case code, a code the table does not know, and an
\* event that carries no updatedAtTimestamp
FetchRawEvents ==
    { RawEvent(Str("IAF"), Str("2024-01-05")),
      RawEvent(Str("h008"), Str("2024-02-10")),
      RawEvent(Str("SA"), Str("2024-02-10")),
      RawEvent(Str("XYZ"), Str("2024-03-15")),
      [eventCode |-> Str("LDA")] }

FetchRawEventSeqs ==
    UNION {[1..n -> FetchRawEvents] : n \in 0..MaxFetchEvents}

\* what the two fetches of one case number can settle to: a rejection, a
\* body without data, a body whose events come in any order
FetchResponses ==
    {FailedResponse, [ok |-> TRUE, data |-> << >>, documents |-> Null]} \cup
    {[ok |-> TRUE, documents |-> Str("[]"),
      data |-> [formType |-> Str("I-485"), events |-> ev]] :
        ev \in FetchRawEventSeqs}

InitFetch ==
    /\ storage = EmptyStorage
    /\ pc = "fetch"
    /\ InitScript

\* one call of fetchCaseData(caseNumber): its result is kept as trackCases
\* keeps it (lines 733-734), in newData under the case number when not null
CallFetchCaseData ==
    /\ pc = "fetch"
    /\ \E id \in CaseIds, response \in FetchResponses, t \in now..MaxTime :
       \E caseData \in fetchCaseData(id, response, t) :
          /\ now' = t
          /\ caseNumbers' = << >>
          /\ fetched' = <<[caseNum |-> id, response |-> response]>>
          /\ IF caseData # Null
             THEN /\ newData' = [i \in {id} |-> caseData]
                  /\ pc' = "fetched"
             ELSE /\ newData' = EmptyCases
                  /\ pc' = "null"
    /\ UNCHANGED <<storage, attempt, lastSavedCases, fieldHighlights,
                   currentCaseData, caseIdsHidden, paneShown, appends>>

NextFetch == CallFetchCaseData

SpecFetch == InitFetch /\ [][NextFetch]_vars

----------------------------------------------------------------------------
(* Properties of the history store *)

Called(r) == r.ok \/ r.val # "not called"

StoredHistory == getHistory(storage).val

CaseFields ==
    {"caseNumber", "formType", "formName", "closed", "updatedAt",
     "updatedAtTimestamp", "currentActionCode", "currentActionDesc",
     "documents", "lastFetched"}
EventFields == {"eventCode", "eventDesc", "updatedAtTimestamp"}

\* two case mappings are the same JavaScript value: the same ids, and for
\* each id every property, and every property of every event in order,
\* reads the same (a property holding undefined reads as an absent one does)
SameRecord(a, b) ==
    /\ \A f \in CaseFields : Get(a, f) = Get(b, f)
    /\ Len(a["events"]) = Len(b["events"])
    /\ \A i \in 1..Len(a["events"]) : \A f \in EventFields :
          Get(a["events"][i], f) = Get(b["events"][i], f)

SameCases(a, b) ==
    /\ DOMAIN a = DOMAIN b
    /\ \A id \in DOMAIN a : SameRecord(a[id], b[id])

\* C1: once saveToHistory(S) has completed, every getLastSavedCases() made
\* before the next saveToHistory or clearAllHistory returns S, whatever the
\* storage held before the save: the value returned is S as JSON holds it,
\* which is the same mapping as S.
C1_ReadAfterSaveReturnsSaved ==
    (pc = "saved" /\ Called(lastSavedCases)) =>
        /\ lastSavedCases.ok
        /\ lastSavedCases.val = StringifyCases(newData)
        /\ SameCases(lastSavedCases.val, newData)

\* C1 witness: a read after the second append of a snapshot that holds a
\* case without events, whose stored form differs from the object saved.
C1_Witness ==
    /\ pc = "saved"
    /\ lastSavedCases.ok
    /\ appends = 2
    /\ \E id \in DOMAIN newData : newData[id]["currentActionCode"] = Undefined
    /\ lastSavedCases.val # newData

\* C2: the history only grows by appends: its length is the number of
\* completed saveToHistory calls since the store was created or cleared
\* (a legacy snapshot adds no entry), each saveToHistory adds one entry at
\* the end, no step changes an existing entry or the order, and only
\* clearAllHistory shortens it.
C2_HistoryAppendOnly ==
    /\ [](Len(StoredHistory) = appends)
    /\ [][/\ Len(StoredHistory') <= Len(StoredHistory) + 1
          /\ Len(StoredHistory') < Len(StoredHistory) =>
                pc' = "cleared" /\ ~Called(lastSavedCases')
          /\ Len(StoredHistory') >= Len(StoredHistory) =>
                SubSeq(StoredHistory', 1, Len(StoredHistory)) = StoredHistory]_vars

\* C2 witness: two appends on a store that began with a legacy snapshot only.
C2_Witness ==
    /\ Len(StoredHistory) = 2
    /\ StoredHistory[1]["cases"] # StoredHistory[2]["cases"]
    /\ DOMAIN StoredHistory[1]["cases"] # {}
    /\ StoredHistory[1]["savedAt"] # StoredHistory[2]["savedAt"]

\* C3: after clearAllHistory() the stored history is empty and
\* getLastSavedCases() returns the empty mapping: no legacy snapshot is left
\* to be read back.
C3_ClearLeavesNothing ==
    pc = "cleared" =>
        /\ Len(StoredHistory) = 0
        /\ getLastSavedCases(storage).ok
        /\ getLastSavedCases(storage).val = EmptyCases
        /\ Called(lastSavedCases) => lastSavedCases = Return(EmptyCases)

\* C3 witness: a read after a clear that followed the save of a non-empty
\* snapshot (both entries were set).
C3_Witness ==
    /\ pc = "cleared"
    /\ lastSavedCases.ok
    /\ DOMAIN newData # {}

LegacyOnly(st) ==
    /\ ~Truthy(st[HISTORY_KEY])
    /\ st[STORAGE_KEY].kind = "json"
    /\ "cases" \in DOMAIN st[STORAGE_KEY].val

\* C4: getLastSavedCases() writes nothing: it leaves both storage entries
\* as they are, and with no history and a legacy snapshot stored it returns
\* that snapshot's cases; the legacy entry changes only in saveToHistory
\* and clearAllHistory.
C4_LegacyReadOnly ==
    [][/\ CallGetLastSavedCases =>
            /\ storage' = storage
            /\ LegacyOnly(storage) =>
                  lastSavedCases' = Return(storage[STORAGE_KEY].val["cases"])
       /\ storage'[STORAGE_KEY] # storage[STORAGE_KEY] =>
            pc' \in {"saved", "cleared"} /\ ~Called(lastSavedCases')]_vars

\* C4 witness: a non-empty legacy snapshot has been read and is still the
\* only thing stored.
C4_Witness ==
    /\ LegacyOnly(storage)
    /\ lastSavedCases.ok
    /\ DOMAIN lastSavedCases.val # {}
    /\ lastSavedCases.val = storage[STORAGE_KEY].val["cases"]

Repaired(st) == [k \in DOMAIN st |-> IF st[k].kind = "json" THEN st[k] ELSE NoItem]

\* C6: a stored entry that is not well-formed reads as absent data:
\* getLastSavedCases() returns what it returns with that entry removed and
\* does not throw, and saveToHistory does not throw either.
C6_MalformedReadsAsEmpty ==
    /\ pc # "threw"
    /\ Called(lastSavedCases) =>
          /\ lastSavedCases.ok
          /\ lastSavedCases.val = getLastSavedCases(Repaired(storage)).val

----------------------------------------------------------------------------
(* Properties of detectFieldHighlights *)

OldCases == lastSavedCases.val

BothIds == DOMAIN newData \cap DOMAIN OldCases

\* the two events have the same (eventCode, updatedAtTimestamp) pair
SamePair(e, f) ==
    /\ Get(e, "eventCode") = Get(f, "eventCode")
    /\ Get(e, "updatedAtTimestamp") = Get(f, "updatedAtTimestamp")

\* C7: for a case of both snapshots, index i is marked new exactly when no
\* event of the prior record has the (eventCode, updatedAtTimestamp) pair of
\* new event i, both fields compared exactly.
C7_NewIffPairAbsent ==
    pc = "diffed" =>
        \A id \in BothIds :
            \A i \in 1..Len(newData[id]["events"]) :
                (i - 1 \in fieldHighlights[id].newEventIndices) <=>
                    ~\E j \in 1..Len(EventsOf(OldCases[id])) :
                        SamePair(EventsOf(OldCases[id])[j], newData[id]["events"][i])

\* C8: a case absent from the prior snapshot is annotated isNew and
\* updatedAtChanged with every index of its events marked; a case present in
\* the prior snapshot is annotated isNew = false.
C8_NewCaseFullyMarked ==
    pc = "diffed" =>
        \A id \in DOMAIN newData :
            IF id \in DOMAIN OldCases
            THEN fieldHighlights[id].isNew = FALSE
            ELSE /\ fieldHighlights[id].isNew = TRUE
                 /\ fieldHighlights[id].updatedAtChanged = TRUE
                 /\ fieldHighlights[id].newEventIndices =
                        0..(Len(newData[id]["events"]) - 1)

\* C8 witness: an empty prior snapshot and two new cases, one with two
\* events and one with none.
C8_Witness ==
    /\ pc = "diffed"
    /\ DOMAIN OldCases = {}
    /\ DOMAIN newData = CaseIds
    /\ fieldHighlights["IOE1"].newEventIndices = {0, 1}
    /\ fieldHighlights["IOE2"].newEventIndices = {}
    /\ fieldHighlights["IOE2"].isNew

\* C9: for a case of both snapshots updatedAtChanged is set exactly when
\* updatedAt or updatedAtTimestamp differs between the two records; a new
\* snapshot equal to the prior one gets updatedAtChanged = false and no new
\* event index for every case.
C9_UpdatedAtChangedIffDiffers ==
    pc = "diffed" =>
        /\ \A id \in BothIds :
              fieldHighlights[id].updatedAtChanged <=>
                  \/ Get(OldCases[id], "updatedAt") # Get(newData[id], "updatedAt")
                  \/ Get(OldCases[id], "updatedAtTimestamp") #
                        Get(newData[id], "updatedAtTimestamp")
        /\ SameCases(OldCases, newData) =>
              \A id \in DOMAIN newData :
                  /\ fieldHighlights[id].updatedAtChanged = FALSE
                  /\ fieldHighlights[id].newEventIndices = {}

\* C9 witness: updatedAt differs while updatedAtTimestamp and the events are
\* the same.
C9_Witness ==
    /\ pc = "diffed"
    /\ "IOE1" \in BothIds
    /\ Get(OldCases["IOE1"], "updatedAt") # Get(newData["IOE1"], "updatedAt")
    /\ Get(OldCases["IOE1"], "updatedAt") # Undefined
    /\ Get(OldCases["IOE1"], "updatedAtTimestamp") =
          Get(newData["IOE1"], "updatedAtTimestamp")
    /\ fieldHighlights["IOE1"].updatedAtChanged
    /\ fieldHighlights["IOE1"].newEventIndices = {}
    /\ Len(newData["IOE1"]["events"]) = 2

\* C9 second case of the claim: the prior snapshot equals the new one.
C9_WitnessEqual ==
    /\ pc = "diffed"
    /\ DOMAIN newData = CaseIds
    /\ SameCases(OldCases, newData)
    /\ Len(newData["IOE1"]["events"]) = 2

\* C10: the result has one annotation per case number of newCases and no
\* other: a case of the prior snapshot alone is not annotated.
C10_OneAnnotationPerNewCase ==
    pc = "diffed" => DOMAIN fieldHighlights = DOMAIN newData

\* C10 witness: a case that disappeared beside one that stayed.
C10_Witness ==
    /\ pc = "diffed"
    /\ DOMAIN OldCases = CaseIds
    /\ DOMAIN newData = {"IOE1"}
    /\ DOMAIN fieldHighlights = {"IOE1"}

----------------------------------------------------------------------------
(* Properties of fetchCaseData *)

\* a >= b on two timestamps, as dates: false when either is no date (as
\* JavaScript's >= is false on undefined and on NaN)
TimestampGE(a, b) ==
    /\ DateValue(a).valid
    /\ DateValue(b).valid
    /\ DateValue(a).time >= DateValue(b).time

\* C11: in every record fetchCaseData produces the events are in descending
\* order of timestamp (each event's updatedAtTimestamp >= the next one's),
\* whatever order the payload had them in, and currentActionCode is the code
\* of the first event, or absent when there is no event.
C11_EventsDescending ==
    pc = "fetched" =>
        \A id \in DOMAIN newData :
            LET e == newData[id]["events"] IN
            /\ \A i \in 1..(Len(e) - 1) :
                  TimestampGE(Get(e[i], "updatedAtTimestamp"),
                              Get(e[i + 1], "updatedAtTimestamp"))
            /\ newData[id]["currentActionCode"] =
                  IF Len(e) = 0 THEN Undefined ELSE e[1]["eventCode"]

\* C11 on payloads whose events all carry a date: the part that holds
C11_DatedEventsDescending ==
    pc = "fetched" =>
        \A id \in DOMAIN newData :
            LET e == newData[id]["events"] IN
            /\ (\A i \in 1..Len(e) : DateValue(Get(e[i], "updatedAtTimestamp")).valid) =>
                  \A i \in 1..(Len(e) - 1) :
                      TimestampGE(Get(e[i], "updatedAtTimestamp"),
                                  Get(e[i + 1], "updatedAtTimestamp"))
            /\ newData[id]["currentActionCode"] =
                  IF Len(e) = 0 THEN Undefined ELSE e[1]["eventCode"]

----------------------------------------------------------------------------
(* Properties of a run of trackCases *)

\* the fetch or the handling of the body of a response fails: a rejected
\* fetch, a body that is not JSON, an event whose eventCode is no string
FetchFails(response) ==
    \/ ~response.ok
    \/ \E i \in 1..Len(EventsOf(response.data)) :
          Get(EventsOf(response.data)[i], "eventCode").t # "string"

\* the case numbers of the run: those fetched, then those still to fetch
Batch == [i \in 1..Len(fetched) |-> fetched[i].caseNum] \o caseNumbers

LastEntry(history) == history[Len(history)]

\* C12: a failing fetch of one case number ends neither the run nor the
\* other fetches: every case number of the batch is fetched in its turn,
\* and when the run appends its snapshot each case whose fetch failed is
\* left out of it, each other case (one without events or with an unknown
\* event code too) is in it with its record and has an annotation.
C12_FailureIsolated ==
    [][pc = "fetching" =>
          /\ Batch' = Batch
          /\ Len(fetched') = Len(fetched) + 1
          /\ pc' = IF caseNumbers' = << >> THEN "done" ELSE "fetching"
          /\ pc' = "done" =>
                /\ \A i \in 1..Len(fetched') :
                      LET id == fetched'[i].caseNum
                          response == fetched'[i].response
                      IN IF FetchFails(response)
                         THEN id \notin DOMAIN newData'
                         ELSE /\ id \in DOMAIN newData'
                              /\ Len(newData'[id]["events"]) =
                                    Len(EventsOf(response.data))
                /\ DOMAIN fieldHighlights' = DOMAIN newData'
                /\ LastEntry(StoredHistory')["cases"] = StringifyCases(newData')
                /\ Len(StoredHistory') = Len(StoredHistory) + 1]_vars

\* C12 witness: the first fetch of a run was rejected, the second returned
\* an event with an unknown code; the snapshot appended holds the second
\* case alone.
C12_Witness ==
    /\ pc = "done"
    /\ Len(fetched) = 2
    /\ ~fetched[1].response.ok
    /\ ~FetchFails(fetched[2].response)
    /\ DOMAIN newData = {fetched[2].caseNum}
    /\ \E i \in 1..Len(newData[fetched[2].caseNum]["events"]) :
          newData[fetched[2].caseNum]["events"][i]["eventDesc"] = Str("Unknown")
    /\ fetched[2].caseNum \in DOMAIN fieldHighlights
    /\ Len(StoredHistory) > 0
    /\ DOMAIN LastEntry(StoredHistory)["cases"] = {fetched[2].caseNum}

\* C12, the case without events: fetched after a case whose event has no
\* code, and appended alone.
C12_WitnessNoEvents ==
    /\ pc = "done"
    /\ Len(fetched) = 2
    /\ fetched[1].response.ok
    /\ FetchFails(fetched[1].response)
    /\ DOMAIN newData = {fetched[2].caseNum}
    /\ newData[fetched[2].caseNum]["events"] = << >>
    /\ Len(StoredHistory) > 0
    /\ DOMAIN LastEntry(StoredHistory)["cases"] = {fetched[2].caseNum}

\* the run of trackCases is suspended in an await
Suspended == pc \in {"polling", "fetching"}

\* C13: a run of trackCases is suspended only in the awaits of the poll and
\* of the fetches; from the last of them the diff, the render and the append
\* are one step: the annotations are those of the new snapshot against the
\* prior state as storage held it before that step, the same step appends
\* the snapshot, and the pane's Clear History handler can run only once
\* that step is over, so storage changes in no other step of a run.
C13_DiffRenderAppendOneStep ==
    /\ [](pc \in {"start", "polling", "fetching", "done"})
    /\ []((ENABLED ClickClearHistory) => pc = "done")
    /\ [][(Suspended /\ ~Suspended') =>
             /\ pc' = "done"
             /\ paneShown'
             /\ lastSavedCases'.val = getLastSavedCases(storage).val
             /\ fieldHighlights' = detectFieldHighlights(lastSavedCases'.val, newData')
             /\ currentCaseData' = newData'
             /\ Len(StoredHistory') = Len(StoredHistory) + 1
             /\ SubSeq(StoredHistory', 1, Len(StoredHistory)) = StoredHistory
             /\ LastEntry(StoredHistory')["cases"] = StringifyCases(newData')]_vars
    /\ [][(Suspended /\ Suspended') =>
             /\ storage' = storage
             /\ fieldHighlights' = fieldHighlights
             /\ ~paneShown'
             /\ pc = "fetching" => lastSavedCases' = lastSavedCases]_vars
    /\ [][(storage' # storage /\ ~Suspended) =>
             /\ pc = "done" /\ pc' = "done"
             /\ storage' = EmptyStorage
             /\ fieldHighlights' = fieldHighlights]_vars

\* C13 witness: Clear History was clicked after a run over two cases had
\* appended its snapshot; the annotations of that run, computed against a
\* non-empty prior state, are still shown.
C13_Witness ==
    /\ pc = "done"
    /\ paneShown
    /\ storage = EmptyStorage
    /\ Len(fetched) = 2
    /\ DOMAIN lastSavedCases.val # {}
    /\ DOMAIN fieldHighlights = CaseIds
    /\ \E id \in CaseIds : ~fieldHighlights[id].isNew
    /\ \E id \in CaseIds : fieldHighlights[id].isNew

\* the case numbers whose fetch in this run did not fail
FetchedOk(f) == {f[i].caseNum : i \in {j \in 1..Len(f) : ~FetchFails(f[j].response)}}

\* C14: the step that completes a run appends a snapshot of exactly the
\* cases whose fetch succeeded in that run (of none, possibly), and its
\* annotations are the diff against the last entry the history had, no
\* other: a case that entry lacks (as after a run in which its fetch
\* failed) is annotated isNew with every event index marked, whether or not
\* an earlier entry has it.
C14_DiffAgainstLastSnapshotOnly ==
    [][(Suspended /\ ~Suspended') =>
          /\ Len(StoredHistory') = Len(StoredHistory) + 1
          /\ DOMAIN LastEntry(StoredHistory')["cases"] = FetchedOk(fetched')
          /\ DOMAIN newData' = FetchedOk(fetched')
          /\ Len(StoredHistory) > 0 =>
                LET last == LastEntry(StoredHistory)["cases"] IN
                /\ fieldHighlights' = detectFieldHighlights(last, newData')
                /\ \A id \in DOMAIN newData' :
                      IF id \in DOMAIN last
                      THEN ~fieldHighlights'[id].isNew
                      ELSE /\ fieldHighlights'[id].isNew
                           /\ fieldHighlights'[id].newEventIndices =
                                 0..(Len(newData'[id]["events"]) - 1)]_vars

\* C14 witness: a third run has fetched, with two events, a case that the
\* first snapshot of the history holds and the second does not; both its
\* event indices are marked new.
C14_Witness ==
    /\ pc = "done"
    /\ Len(StoredHistory) = 3
    /\ \E id \in FetchedOk(fetched) :
          /\ id \in DOMAIN StoredHistory[1]["cases"]
          /\ Len(StoredHistory[1]["cases"][id]["events"]) > 0
          /\ id \notin DOMAIN StoredHistory[2]["cases"]
          /\ id \in DOMAIN LastEntry(StoredHistory)["cases"]
          /\ fieldHighlights[id].isNew
          /\ fieldHighlights[id].newEventIndices = {0, 1}

\* C15: with well-formed storage and fetches that all settle, every run of
\* trackCases ends, and by then has called saveToHistory once: the poll is
\* left after at most maxAttempts attempts, found or not, for the fetches or
\* the end of the run; each case number of the batch is fetched once, in
\* order; the history grows by one entry in the step that ends the run and
\* in no other step of it, whatever the fetches settled to.
C15_RunTerminatesWithOneAppend ==
    /\ (pc = "start") ~> (pc = "done")
    /\ (pc = "polling") ~> (pc # "polling")
    /\ [](pc = "polling" => attempt <= maxAttempts)
    /\ [](pc # "failed")
    /\ [](\A i, j \in 1..Len(Batch) : i # j => Batch[i] # Batch[j])
    /\ [](pc = "done" => caseNumbers = << >>)
    /\ [][pc = "polling" =>
             /\ pc' \in {"polling", "fetching", "done"}
             /\ pc' = "polling" => attempt' = attempt + 1]_vars
    /\ [][pc = "fetching" =>
             /\ Batch' = Batch
             /\ Len(fetched') = Len(fetched) + 1]_vars
    /\ [][(pc \in {"start", "polling", "fetching"}) =>
             Len(StoredHistory') =
                Len(StoredHistory) + (IF pc' = "done" THEN 1 ELSE 0)]_vars

\* C15 witness: a run whose two fetches were both rejected has ended with
\* its (empty) snapshot appended to a history of two.
C15_Witness ==
    /\ pc = "done"
    /\ Len(fetched) = 2
    /\ \A i \in 1..Len(fetched) : ~fetched[i].response.ok
    /\ newData = EmptyCases
    /\ appends = 3
    /\ Len(StoredHistory) = 3
    /\ DOMAIN LastEntry(StoredHistory)["cases"] = {}
    /\ DOMAIN StoredHistory[2]["cases"] # {}

====
